---- MODULE Spec2Model ----
(***************************************************************************)
(* A model of readdump.go (package main of neverhook/hprof): Read decodes  *)
(* a "go1.3 heap dump" record stream (rawRead), names fields from DWARF    *)
(* indexes (naming) and links the records into an object graph (link).     *)
(*                                                                         *)
(* Pointers are indexes into the dump's record lists, 0 being nil.         *)
(* uint64 values are words of WordBits bits: every uint64 operation of the *)
(* code is taken modulo Mod.  The Heap type (an ordered map with a floor   *)
(* lookup) is not part of readdump.go; it is modelled from its contract.   *)
(***************************************************************************)
EXTENDS Integers, Sequences, FiniteSets, TLC

VARIABLES
    pc,         \* position of Read: "start", a phase of it, "done", "fatal", "panic"
    msg,        \* the message of log.Fatal, "" while there is none
    file,       \* the dump file: header line and record stream (input)
    exe,        \* the executable: container format and DWARF presence (input)
    dw,         \* the DWARF indexes of the executable: globals, locals, structs (input)
    dumpFile,   \* handle of the dump file: "unopened", "open", "closed"
    exeFile,    \* handle of the executable: "unopened", "open", "closed"
    d,          \* the Dump
    cur,        \* loop variables of the loop link is in
    calls       \* history: the (object, base offset) pairs of the appendFields calls
                \* of link's object-to-object pass

vars == <<pc, msg, file, exe, dw, dumpFile, exeFile, d, cur, calls>>

(***************************************************************************)
(* Bounds                                                                  *)
(***************************************************************************)
WordBits == 5
MaxFrames == 3
MaxGoroutines == 2
MaxElems == 3
MaxEdges == 8

Mod == 2^WordBits

(***************************************************************************)
(* Constants of readdump.go                                                *)
(***************************************************************************)
fieldKindPtr == 0
fieldKindString == 1
fieldKindSlice == 2
fieldKindIface == 3
fieldKindEface == 4
fieldKindEol == 5

typeKindObject == 0
typeKindArray == 1
typeKindChan == 2

tagObject == 1
tagEOF == 3
tagDataRoot == 5
tagOtherRoot == 6
tagType == 7
tagGoRoutine == 8
tagStackFrame == 9
tagParams == 10
tagFinalizer == 11
tagItab == 12
tagOSThread == 13
tagMemStats == 14

KnownTags == {tagObject, tagEOF, tagDataRoot, tagOtherRoot, tagType, tagGoRoutine,
              tagStackFrame, tagParams, tagFinalizer, tagItab, tagOSThread, tagMemStats}

HeaderText == "go1.3 heap dump"

(***************************************************************************)
(* uint64 arithmetic                                                       *)
(***************************************************************************)
Add(a, b) == (a + b) % Mod
Sub(a, b) == (a - b + Mod) % Mod

\* x << k on a byte: the zero byte is not shifted, so that no power of two
\* beyond the model checker's integers is computed.
Shl(x, k) == IF x = 0 THEN 0 ELSE x * 2^k

(***************************************************************************)
(* fmt.Sprintf("%d", n) of an unsigned number                              *)
(***************************************************************************)
Digits == <<"0", "1", "2", "3", "4", "5", "6", "7", "8", "9">>

RECURSIVE Dec(_)
Dec(n) == IF n < 10 THEN Digits[n + 1] ELSE Dec(n \div 10) \o Digits[(n % 10) + 1]

(***************************************************************************)
(* Records                                                                 *)
(***************************************************************************)
Field(kind, offset) == [kind |-> kind, offset |-> offset, name |-> ""]

Edge(to, fromoffset, tooffset, fieldname, fieldoffset) ==
    [to |-> to, fromoffset |-> fromoffset, tooffset |-> tooffset,
     fieldname |-> fieldname, fieldoffset |-> fieldoffset]

ZeroEdge == Edge(0, 0, 0, "", 0)

Object(addr, typaddr, kind, data) ==
    [addr |-> addr, typaddr |-> typaddr, kind |-> kind, data |-> data,
     typ |-> 0, edges |-> <<>>]

Type(addr, size, name, efaceptr, fields) ==
    [addr |-> addr, size |-> size, name |-> name, efaceptr |-> efaceptr, fields |-> fields]

StackFrame(addr, depth, data, name, fields) ==
    [addr |-> addr, depth |-> depth, data |-> data, name |-> name, fields |-> fields,
     parent |-> 0, goroutine |-> 0, edges |-> <<>>]

GoRoutine(tosaddr, ctxtaddr) ==
    [tosaddr |-> tosaddr, ctxtaddr |-> ctxtaddr, tos |-> 0, ctxt |-> 0]

DataRoot(fromaddr, toaddr) ==
    [fromaddr |-> fromaddr, toaddr |-> toaddr, name |-> "", e |-> ZeroEdge]

OtherRoot(description, toaddr) ==
    [description |-> description, toaddr |-> toaddr, e |-> ZeroEdge]

Finalizer(obj, fn, fint, ot) == [obj |-> obj, fn |-> fn, fint |-> fint, ot |-> ot]

Itab(addr, ptr) == [addr |-> addr, ptr |-> ptr]

\* var d Dump: the zero value.  order "" is the nil byte order.
ZeroDump ==
    [order |-> "", ptrSize |-> 0, hChanSize |-> 0,
     types |-> <<>>, objects |-> <<>>, frames |-> <<>>, goroutines |-> <<>>,
     dataroots |-> <<>>, otherroots |-> <<>>, finalizers |-> <<>>, itabs |-> <<>>]

(***************************************************************************)
(* Heap: an ordered map, here a function from its keys to their values.    *)
(***************************************************************************)
EmptyHeap == [k \in {} |-> 0]

Insert(h, key, value) ==
    [k \in DOMAIN h \cup {key} |-> IF k = key THEN value ELSE h[k]]

\* Lookup gives the greatest key <= query with its value, (0, nil) when there is none.
Lookup(h, query) ==
    LET below == {k \in DOMAIN h : k <= query} IN
    IF below = {} THEN [key |-> 0, nil |-> TRUE, val |-> 0]
    ELSE LET a == CHOOSE k \in below : \A j \in below : j <= k
         IN  [key |-> a, nil |-> FALSE, val |-> h[a]]

(***************************************************************************)
(* readPtr: a pointer word of d.ptrSize bytes in byte order d.order.        *)
(* b is the slice the caller passes, 1-based here.  A slice shorter than    *)
(* the word panics (index out of range); an unsupported order or pointer    *)
(* size is fatal.                                                           *)
(***************************************************************************)
Ok(v) == [st |-> "ok", v |-> v, msg |-> ""]
Panic == [st |-> "panic", v |-> 0, msg |-> ""]
Fatal(m) == [st |-> "fatal", v |-> 0, msg |-> m]

readPtr(dd, b) ==
    CASE dd.order = "LE" /\ dd.ptrSize = 4 ->
           IF Len(b) < 4 THEN Panic
           ELSE Ok(b[1] + Shl(b[2], 8) + Shl(b[3], 16) + Shl(b[4], 24))
      [] dd.order = "BE" /\ dd.ptrSize = 4 ->
           IF Len(b) < 4 THEN Panic
           ELSE Ok(b[4] + Shl(b[3], 8) + Shl(b[2], 16) + Shl(b[1], 24))
      [] dd.order = "LE" /\ dd.ptrSize = 8 ->
           IF Len(b) < 8 THEN Panic
           ELSE Ok(b[1] + Shl(b[2], 8) + Shl(b[3], 16) + Shl(b[4], 24)
                   + Shl(b[5], 32) + Shl(b[6], 40) + Shl(b[7], 48) + Shl(b[8], 56))
      [] dd.order = "BE" /\ dd.ptrSize = 8 ->
           IF Len(b) < 8 THEN Panic
           ELSE Ok(b[8] + Shl(b[7], 8) + Shl(b[6], 16) + Shl(b[5], 24)
                   + Shl(b[4], 32) + Shl(b[3], 40) + Shl(b[2], 48) + Shl(b[1], 56))
      [] OTHER -> Fatal("unsupported order/ptrSize")

\* readPtr(info.dump, data[off:]): the slice expression panics when off > len(data).
PtrAt(dd, data, off) ==
    IF off > Len(data) THEN Panic
    ELSE readPtr(dd, SubSeq(data, off + 1, Len(data)))

(***************************************************************************)
(* LinkInfo: the maps link builds from the dump                             *)
(***************************************************************************)
\* The greatest index in hits, 0 when there is none: what a Go map holds after the
\* records were stored under their keys in order.
LastIndex(hits) ==
    IF hits = {} THEN 0 ELSE CHOOSE i \in hits : \A j \in hits : j <= i

\* info.types[addr]
infoTypes(dd, addr) == LastIndex({i \in 1..Len(dd.types) : dd.types[i].addr = addr})

\* info.itabs[addr]
infoItabs(dd, addr) == LastIndex({i \in 1..Len(dd.itabs) : dd.itabs[i].addr = addr})

\* info.frames[frameKey{sp, depth}]
infoFrames(dd, sp, depth) ==
    LastIndex({i \in 1..Len(dd.frames) : dd.frames[i].addr = sp /\ dd.frames[i].depth = depth})

\* info.objects: every object inserted under its address, in order
RECURSIVE InsertObjects(_, _, _)
InsertObjects(h, objs, i) ==
    IF i > Len(objs) THEN h ELSE InsertObjects(Insert(h, objs[i].addr, i), objs, i + 1)

infoObjects(dd) == InsertObjects(EmptyHeap, dd.objects, 1)

\* findObj, given what info.objects.Lookup(addr) returned
InObject(dd, addr, r) ==
    IF r.nil THEN 0
    ELSE IF addr >= Add(dd.objects[r.val].addr, Len(dd.objects[r.val].data)) THEN 0
    ELSE r.val

findObj(dd, addr) == InObject(dd, addr, Lookup(infoObjects(dd), addr))

(***************************************************************************)
(* appendEdge, appendFields.  Each returns Ok(edges), or the panic or the   *)
(* fatal error that ends the run.  An operator that needs the result of a   *)
(* call more than once takes it as a parameter.                             *)
(***************************************************************************)
\* appendEdge, given the pointer p read and q = findObj(p)
EdgeTo(dd, edges, off, f, p, q) ==
    IF q # 0
    THEN Ok(Append(edges, Edge(q, off, Sub(p, dd.objects[q].addr), f.name, 0)))
    ELSE Ok(edges)

\* appendEdge, given p = readPtr(info.dump, data[off:])
EdgeFor(dd, edges, off, f, p) ==
    IF p.st # "ok" THEN p ELSE EdgeTo(dd, edges, off, f, p.v, findObj(dd, p.v))

appendEdge(dd, edges, data, off, f) == EdgeFor(dd, edges, off, f, PtrAt(dd, data, off))

\* case fieldKindEface, given t = info.types[tp]
EfaceTyped(dd, edges, data, off, f, t) ==
    IF t = 0 THEN Fatal("can't find eface type")
    ELSE IF dd.types[t].efaceptr
         THEN appendEdge(dd, edges, data, Add(off, dd.ptrSize), f)
         ELSE Ok(edges)

\* case fieldKindEface, given tp = readPtr(info.dump, data[off:])
EfaceData(dd, edges, data, off, f, tp) ==
    IF tp.st # "ok" THEN tp
    ELSE IF tp.v = 0 THEN Ok(edges)
    ELSE EfaceTyped(dd, edges, data, off, f, infoTypes(dd, tp.v))

\* case fieldKindEface, given e1 = info.appendEdge(edges, data, off, f)
EfaceHeader(dd, e1, data, off, f) ==
    IF e1.st # "ok" THEN e1
    ELSE EfaceData(dd, e1.v, data, off, f, PtrAt(dd, data, off))

EfaceField(dd, edges, data, off, f) ==
    EfaceHeader(dd, appendEdge(dd, edges, data, off, f), data, off, f)

IfaceTabbedIgnoringPtr(dd, edges, data, off, f, t) ==
    IF t = 0 THEN Fatal("can't find iface tab")
    ELSE appendEdge(dd, edges, data, Add(off, dd.ptrSize), f)

\* case fieldKindIface, given t = info.itabs[tp]
IfaceTabbed(dd, edges, data, off, f, t) ==
    IF t = 0 THEN Fatal("can't find iface tab")
    ELSE IF dd.itabs[t].ptr
         THEN appendEdge(dd, edges, data, Add(off, dd.ptrSize), f)
         ELSE Ok(edges)

\* case fieldKindIface, given tp = readPtr(info.dump, data[off:])
IfaceData(dd, edges, data, off, f, tp) ==
    IF tp.st # "ok" THEN tp
    ELSE IF tp.v = 0 THEN Ok(edges)
    ELSE IfaceTabbed(dd, edges, data, off, f, infoItabs(dd, tp.v))

IfaceField(dd, edges, data, off, f) ==
    IfaceData(dd, edges, data, off, f, PtrAt(dd, data, off))

\* The body of appendFields' loop for field f, off being offset + f.offset.
FieldAt(dd, edges, data, f, off) ==
    CASE f.kind \in {fieldKindPtr, fieldKindString, fieldKindSlice} ->
           appendEdge(dd, edges, data, off, f)
      [] f.kind = fieldKindEface -> EfaceField(dd, edges, data, off, f)
      [] f.kind = fieldKindIface -> IfaceField(dd, edges, data, off, f)
      [] OTHER -> Ok(edges)

appendField(dd, edges, data, f, offset) ==
    FieldAt(dd, edges, data, f, Add(offset, f.offset))

\* appendFields' loop from field i on, r being the result so far
RECURSIVE appendFieldsFrom(_, _, _, _, _, _)
appendFieldsFrom(dd, r, data, fields, offset, i) ==
    IF r.st # "ok" \/ i > Len(fields) THEN r
    ELSE appendFieldsFrom(dd, appendField(dd, r.v, data, fields[i], offset),
                          data, fields, offset, i + 1)

appendFields(dd, edges, data, fields, offset) ==
    appendFieldsFrom(dd, Ok(edges), data, fields, offset, 1)

(***************************************************************************)
(* rawRead                                                                  *)
(*                                                                          *)
(* The dump file is [exists, hdr, recs]: hdr is its first line, [text,      *)
(* term, long] (term the line terminator "LF", "CRLF" or "EOF", long a line *)
(* that does not fit bufio's buffer); recs is the records that follow, each *)
(* [tag, ok, v] with ok = FALSE for a record the file ends in the middle of.*)
(***************************************************************************)
\* bufio's ReadLine: the line without its terminator, prefix, and an error when the
\* file holds nothing at all.
ReadLine(hdr) ==
    [line |-> hdr.text, prefix |-> hdr.long, err |-> hdr.text = "" /\ hdr.term = "EOF"]

\* One record stored into the dump: the body of rawRead's switch for a known tag
\* other than tagEOF.
StoreRecord(dd, rec) ==
    CASE rec.tag = tagObject -> [dd EXCEPT !.objects = Append(@, rec.v)]
      [] rec.tag = tagDataRoot -> [dd EXCEPT !.dataroots = Append(@, rec.v)]
      [] rec.tag = tagOtherRoot -> [dd EXCEPT !.otherroots = Append(@, rec.v)]
      [] rec.tag = tagType -> [dd EXCEPT !.types = Append(@, rec.v)]
      [] rec.tag = tagGoRoutine -> [dd EXCEPT !.goroutines = Append(@, rec.v)]
      [] rec.tag = tagStackFrame -> [dd EXCEPT !.frames = Append(@, rec.v)]
      [] rec.tag = tagParams ->
           [dd EXCEPT !.order = IF rec.v.order = 0 THEN "LE" ELSE "BE",
                      !.ptrSize = rec.v.ptrSize,
                      !.hChanSize = rec.v.hChanSize]
      [] rec.tag = tagFinalizer -> [dd EXCEPT !.finalizers = Append(@, rec.v)]
      [] rec.tag = tagItab -> [dd EXCEPT !.itabs = Append(@, rec.v)]
      [] OTHER -> dd   \* tagOSThread, tagMemStats: kept in lists link never reads

\* rawRead's loop from record i on.
RECURSIVE ReadRecords(_, _, _)
ReadRecords(dd, recs, i) ==
    IF i > Len(recs) THEN Fatal("EOF")
    ELSE LET rec == recs[i] IN
         IF rec.tag \notin KnownTags THEN Fatal("unknown record kind")
         ELSE IF rec.tag = tagEOF THEN Ok(dd)
         ELSE IF ~rec.ok THEN Fatal("unexpected EOF")
         ELSE ReadRecords(StoreRecord(dd, rec), recs, i + 1)

HeaderOk(hdr) ==
    LET l == ReadLine(hdr) IN ~l.err /\ ~l.prefix /\ l.line = HeaderText

rawRead ==
    /\ pc = "start"
    /\ IF ~file.exists
       THEN /\ pc' = "fatal" /\ msg' = "open: no such file"
            /\ UNCHANGED <<dumpFile, d>>
       ELSE /\ dumpFile' = "open"
            /\ IF ReadLine(file.hdr).err
               THEN pc' = "fatal" /\ msg' = "EOF" /\ UNCHANGED d
               ELSE IF ~HeaderOk(file.hdr)
               THEN pc' = "fatal" /\ msg' = "not a go1.3 heap dump file" /\ UNCHANGED d
               ELSE LET r == ReadRecords(ZeroDump, file.recs, 1) IN
                    IF r.st = "ok"
                    THEN pc' = "naming" /\ d' = r.v /\ UNCHANGED msg
                    ELSE pc' = "fatal" /\ msg' = r.msg /\ UNCHANGED d
    /\ UNCHANGED <<file, exe, dw, exeFile, cur, calls>>

(***************************************************************************)
(* getDwarf: the executable is [format, dwarf].  The container format that  *)
(* opens the file defers its Close; the deferred Close runs when getDwarf   *)
(* returns, and does not run when log.Fatal exits the process.              *)
(***************************************************************************)
Formats == {"elf", "macho", "pe"}

getDwarf(e, handle) ==
    IF e.format \in Formats
    THEN IF e.dwarf THEN [st |-> "ok", handle |-> "closed"]
         ELSE [st |-> "fatal", handle |-> "open"]
    ELSE [st |-> "fatal", handle |-> handle]

(***************************************************************************)
(* naming                                                                   *)
(***************************************************************************)
\* m[name] of a Go map from names to *Heap: [nil |-> TRUE] when the name is absent.
MapGet(m, name) ==
    IF name \in DOMAIN m THEN [nil |-> FALSE, h |-> m[name]]
    ELSE [nil |-> TRUE, h |-> EmptyHeap]

NilString == "%!s(<nil>)"

\* The name naming gives field f of frame r from the locals heap h.
FrameFieldName(h, r, f) ==
    LET off == Sub(Len(r.data), f.offset)
        l == Lookup(h, off)
    IN  IF l.key = off
        THEN IF l.nil THEN Panic ELSE Ok(l.val)
        ELSE Ok((IF l.nil THEN NilString ELSE l.val) \o ":" \o Dec(Sub(l.key, off)))

\* The name naming gives field f of a type from the type's struct heap h.
StructFieldName(h, f) ==
    LET l == Lookup(h, f.offset) IN
    IF l.nil THEN "unk" \o Dec(f.offset)
    ELSE IF l.key = f.offset THEN l.val
    ELSE l.val \o ":" \o Dec(Sub(l.key, f.offset))

NameTypeUnk(structs, t) ==
    LET e == MapGet(structs, t.name) IN
    [t EXCEPT !.fields =
        [i \in 1..Len(t.fields) |->
            [t.fields[i] EXCEPT !.name = StructFieldName(e.h, t.fields[i])]]]

\* naming's loop body for type t.
NameType(structs, t) ==
    LET e == MapGet(structs, t.name) IN
    IF e.nil THEN t
    ELSE [t EXCEPT !.fields =
            [i \in 1..Len(t.fields) |->
                [t.fields[i] EXCEPT !.name = StructFieldName(e.h, t.fields[i])]]]

\* naming's loop body for frame r; nilPanics is what Lookup does on the nil *Heap of
\* a function the locals map does not hold.
FramePanics(locals, r, nilPanics) ==
    LET e == MapGet(locals, r.name) IN
    \/ e.nil /\ nilPanics /\ Len(r.fields) > 0
    \/ \E i \in 1..Len(r.fields) : FrameFieldName(e.h, r, r.fields[i]).st = "panic"

NameFrame(locals, r) ==
    LET e == MapGet(locals, r.name) IN
    [r EXCEPT !.fields =
        [i \in 1..Len(r.fields) |->
            [r.fields[i] EXCEPT !.name = FrameFieldName(e.h, r, r.fields[i]).v]]]

naming ==
    /\ pc = "naming"
    /\ LET w == getDwarf(exe, exeFile) IN
       /\ exeFile' = w.handle
       /\ IF w.st # "ok"
          THEN pc' = "fatal" /\ msg' = "can't get dwarf info from executable" /\ UNCHANGED d
          ELSE \E nilPanics \in BOOLEAN :
               IF \E i \in 1..Len(d.frames) : FramePanics(dw.locals, d.frames[i], nilPanics)
               THEN pc' = "panic" /\ UNCHANGED <<msg, d>>
               ELSE /\ pc' = "link"
                    /\ d' = [d EXCEPT
                               !.frames = [i \in 1..Len(d.frames) |->
                                              NameFrame(dw.locals, d.frames[i])],
                               !.types = [i \in 1..Len(d.types) |->
                                              NameType(dw.structs, d.types[i])]]
                    /\ UNCHANGED msg
    /\ UNCHANGED <<file, exe, dw, dumpFile, cur, calls>>

(***************************************************************************)
(* link                                                                     *)
(***************************************************************************)
TypesNeverMissing(dd) == FALSE

\* "link objects to types": the objects with typ set, or fatal.
TypesMissing(dd) ==
    \E i \in 1..Len(dd.objects) :
        dd.objects[i].typaddr # 0 /\ infoTypes(dd, dd.objects[i].typaddr) = 0

LinkTypes(dd) ==
    [dd EXCEPT !.objects =
        [i \in 1..Len(dd.objects) |->
            [dd.objects[i] EXCEPT !.typ =
                IF dd.objects[i].typaddr = 0 THEN 0
                ELSE infoTypes(dd, dd.objects[i].typaddr)]]]

\* "link frames to objects", from frame i on: r is Ok(the dump so far) or what
\* ended the run, e the result of appendFields for frame i - 1.
FrameEdgesSet(dd, i, e) ==
    IF e.st # "ok" THEN e ELSE Ok([dd EXCEPT !.frames[i].edges = e.v])

RECURSIVE LinkFrameEdges(_, _)
LinkFrameEdges(r, i) ==
    IF r.st # "ok" \/ i > Len(r.v.frames) THEN r
    ELSE LinkFrameEdges(
            FrameEdgesSet(r.v, i,
                appendFields(r.v, r.v.frames[i].edges, r.v.frames[i].data,
                             r.v.frames[i].fields, 0)),
            i + 1)

ParentOfSameDepth(dd, f) == infoFrames(dd, Add(f.addr, Len(f.data)), f.depth)

\* f.parent of "link up frames in sequence"
ParentOf(dd, f) == infoFrames(dd, Add(f.addr, Len(f.data)), Add(f.depth, 1))

LinkParents(dd) ==
    [dd EXCEPT !.frames =
        [i \in 1..Len(dd.frames) |-> [dd.frames[i] EXCEPT !.parent = ParentOf(dd, dd.frames[i])]]]

\* link from "link objects to types" up to the loop over the goroutines, e being
\* the result of "link frames to objects"
linkFramesThen(e) ==
    IF e.st # "ok"
    THEN pc' = e.st /\ msg' = e.msg /\ UNCHANGED <<d, cur>>
    ELSE /\ pc' = "goroutines"
         /\ d' = LinkParents(e.v)
         /\ cur' = [g |-> 1, f |-> 0, walking |-> FALSE]
         /\ UNCHANGED msg

\* link up to the loop over the goroutines
linkFrames ==
    /\ pc = "link"
    /\ exeFile' = getDwarf(exe, exeFile).handle
    /\ IF getDwarf(exe, exeFile).st # "ok"
       THEN pc' = "fatal" /\ msg' = "can't get dwarf info from executable"
            /\ UNCHANGED <<d, cur>>
       ELSE IF TypesMissing(d)
       THEN pc' = "fatal" /\ msg' = "type is missing" /\ UNCHANGED <<d, cur>>
       ELSE linkFramesThen(LinkFrameEdges(Ok(LinkTypes(d)), 1))
    /\ UNCHANGED <<file, exe, dw, dumpFile, calls>>

\* g.tos = info.frames[frameKey{g.tosaddr, 0}]
goroutineTos ==
    /\ pc = "goroutines" /\ ~cur.walking /\ cur.g <= Len(d.goroutines)
    /\ LET tos == infoFrames(d, d.goroutines[cur.g].tosaddr, 0) IN
       IF tos = 0
       THEN pc' = "fatal" /\ msg' = "tos missing" /\ UNCHANGED <<d, cur>>
       ELSE /\ d' = [d EXCEPT !.goroutines[cur.g].tos = tos]
            /\ cur' = [cur EXCEPT !.f = tos, !.walking = TRUE]
            /\ UNCHANGED <<pc, msg>>
    /\ UNCHANGED <<file, exe, dw, dumpFile, exeFile, calls>>

setGoroutineOnce(dd, f, g) ==
    IF dd.frames[f].goroutine # 0 THEN dd ELSE [dd EXCEPT !.frames[f].goroutine = g]

\* f.goroutine = g
setGoroutine(dd, f, g) == [dd EXCEPT !.frames[f].goroutine = g]

\* one iteration of "for f := g.tos; f != nil; f = f.parent"
walkFrame ==
    /\ pc = "goroutines" /\ cur.walking /\ cur.f # 0
    /\ d' = setGoroutine(d, cur.f, cur.g)
    /\ cur' = [cur EXCEPT !.f = d.frames[cur.f].parent]
    /\ UNCHANGED <<pc, msg, file, exe, dw, dumpFile, exeFile, calls>>

\* the walk's exit and g.ctxt
goroutineCtxt ==
    /\ pc = "goroutines" /\ cur.walking /\ cur.f = 0
    /\ LET x == findObj(d, d.goroutines[cur.g].ctxtaddr) IN
       d' = IF x # 0 THEN [d EXCEPT !.goroutines[cur.g].ctxt = x] ELSE d
    /\ cur' = [g |-> cur.g + 1, f |-> 0, walking |-> FALSE]
    /\ UNCHANGED <<pc, msg, file, exe, dw, dumpFile, exeFile, calls>>

\* the body of the loop over d.dataroots
LinkDataRoot(dd, r) ==
    LET l == Lookup(dw.globals, r.fromaddr)
        x == findObj(dd, r.toaddr)
    IN  [r EXCEPT !.name = IF ~l.nil THEN l.val ELSE "unknown global",
                  !.e = IF x # 0
                        THEN Edge(x, Sub(r.fromaddr, l.key),
                                  Sub(r.toaddr, dd.objects[x].addr), "", 0)
                        ELSE @]

\* the body of the loop over d.otherroots
LinkOtherRoot(dd, r) ==
    LET x == findObj(dd, r.toaddr) IN
    [r EXCEPT !.e = IF x # 0 THEN Edge(x, 0, Sub(r.toaddr, dd.objects[x].addr), "", 0)
                    ELSE @]

\* the loops over the data roots and the other roots
linkRoots ==
    /\ pc = "goroutines" /\ ~cur.walking /\ cur.g > Len(d.goroutines)
    /\ d' = [d EXCEPT
               !.dataroots = [i \in 1..Len(d.dataroots) |-> LinkDataRoot(d, d.dataroots[i])],
               !.otherroots = [i \in 1..Len(d.otherroots) |-> LinkOtherRoot(d, d.otherroots[i])]]
    /\ pc' = "objects"
    /\ cur' = [o |-> 1, i |-> 0, inloop |-> FALSE, body |-> FALSE]
    /\ UNCHANGED <<msg, file, exe, dw, dumpFile, exeFile, calls>>

\* x.edges = e for object o, e being the result of appendFields at base offset i;
\* then the loop variables are next
setEdges(o, i, next, e) ==
    /\ calls' = calls \cup {<<o, i>>}
    /\ IF e.st # "ok"
       THEN pc' = e.st /\ msg' = e.msg /\ UNCHANGED <<d, cur>>
       ELSE /\ d' = [d EXCEPT !.objects[o].edges = e.v]
            /\ cur' = next
            /\ UNCHANGED <<pc, msg>>

\* x.edges = info.appendFields(x.edges, x.data, t.fields, i) for object o
callAppendFields(o, i, next) ==
    setEdges(o, i, next,
             appendFields(d, d.objects[o].edges, d.objects[o].data,
                          d.types[d.objects[o].typ].fields, i))

\* i <= uint64(len(x.data))-t.size
LoopCond(x, t, i) == i <= Sub(Len(x.data), t.size)

\* "link objects to each other": the loop body up to the inner loop
linkObject ==
    /\ pc = "objects" /\ ~cur.inloop /\ cur.o <= Len(d.objects)
    /\ LET x == d.objects[cur.o]
           skip == [o |-> cur.o + 1, i |-> 0, inloop |-> FALSE, body |-> FALSE]
       IN  IF x.typ = 0
           THEN cur' = skip /\ UNCHANGED <<pc, msg, d, calls>>
           ELSE CASE x.kind = typeKindObject -> callAppendFields(cur.o, 0, skip)
                  [] x.kind = typeKindArray ->
                       /\ cur' = [o |-> cur.o, i |-> 0, inloop |-> TRUE, body |-> FALSE]
                       /\ UNCHANGED <<pc, msg, d, calls>>
                  [] x.kind = typeKindChan ->
                       /\ cur' = [o |-> cur.o, i |-> d.hChanSize, inloop |-> TRUE, body |-> FALSE]
                       /\ UNCHANGED <<pc, msg, d, calls>>
                  [] OTHER -> cur' = skip /\ UNCHANGED <<pc, msg, d, calls>>
    /\ UNCHANGED <<file, exe, dw, dumpFile, exeFile>>

\* one test of the inner loop's condition: on to the body, or out of the loop and
\* on to the next object
loopTest ==
    /\ pc = "objects" /\ cur.inloop /\ ~cur.body
    /\ LET x == d.objects[cur.o]
           t == d.types[x.typ]
       IN  cur' = IF LoopCond(x, t, cur.i)
                  THEN [cur EXCEPT !.body = TRUE]
                  ELSE [o |-> cur.o + 1, i |-> 0, inloop |-> FALSE, body |-> FALSE]
    /\ UNCHANGED <<pc, msg, d, calls, file, exe, dw, dumpFile, exeFile>>

\* one iteration of the inner loop: the body and "i += t.size"
linkElement ==
    /\ pc = "objects" /\ cur.inloop /\ cur.body
    /\ Len(d.objects[cur.o].edges) < MaxEdges
    /\ callAppendFields(cur.o, cur.i,
                        [cur EXCEPT !.i = Add(cur.i, d.types[d.objects[cur.o].typ].size),
                                    !.body = FALSE])
    /\ UNCHANGED <<file, exe, dw, dumpFile, exeFile>>

\* the edges of finalizer f, for the addresses addrs[k..]
RECURSIVE FinalizerEdges(_, _, _, _)
FinalizerEdges(dd, x, addrs, k) ==
    IF k > Len(addrs) THEN dd
    ELSE LET y == findObj(dd, addrs[k]) IN
         FinalizerEdges(
            IF x # 0 /\ y # 0
            THEN [dd EXCEPT !.objects[x].edges =
                    Append(@, Edge(x, 0, Sub(addrs[k], dd.objects[y].addr), "", 0))]
            ELSE dd,
            x, addrs, k + 1)

RECURSIVE LinkFinalizers(_, _)
LinkFinalizers(dd, i) ==
    IF i > Len(dd.finalizers) THEN dd
    ELSE LET f == dd.finalizers[i] IN
         LinkFinalizers(FinalizerEdges(dd, findObj(dd, f.obj), <<f.fn, f.fint, f.ot>>, 1),
                        i + 1)

\* "Add links for finalizers", and Read's return
linkFinalizers ==
    /\ pc = "objects" /\ ~cur.inloop /\ cur.o > Len(d.objects)
    /\ d' = LinkFinalizers(d, 1)
    /\ pc' = "done"
    /\ UNCHANGED <<msg, file, exe, dw, dumpFile, exeFile, cur, calls>>

Next ==
    \/ rawRead
    \/ naming
    \/ linkFrames
    \/ goroutineTos
    \/ walkFrame
    \/ goroutineCtxt
    \/ linkRoots
    \/ linkObject
    \/ loopTest
    \/ linkElement
    \/ linkFinalizers

(***************************************************************************)
(* Inputs: the dump files and executables Read is run on                    *)
(***************************************************************************)
Rec(tag, v) == [tag |-> tag, ok |-> TRUE, v |-> v]
NoPayload == [none |-> TRUE]
Cut(tag) == [tag |-> tag, ok |-> FALSE, v |-> NoPayload]
EOFRec == Rec(tagEOF, NoPayload)
Params(order, ptrSize, hChanSize) ==
    Rec(tagParams, [order |-> order, ptrSize |-> ptrSize, hChanSize |-> hChanSize])

GoodHeader == [text |-> HeaderText, term |-> "LF", long |-> FALSE]
GoodExe == [format |-> "elf", dwarf |-> TRUE]
NoDwarf == [globals |-> EmptyHeap, locals |-> EmptyHeap, structs |-> EmptyHeap]

File(recs) == [exists |-> TRUE, hdr |-> GoodHeader, recs |-> recs]
Input(f, e, w) == [file |-> f, exe |-> e, dw |-> w]

\* A pointer word as the runtime writes it: ptrSize bytes in byte order order
\* (0 little endian, else big endian).
RECURSIVE Zeros(_)
Zeros(n) == IF n = 0 THEN <<>> ELSE <<0>> \o Zeros(n - 1)
Word(order, ptrSize, w) ==
    IF order = 0 THEN <<w>> \o Zeros(ptrSize - 1) ELSE Zeros(ptrSize - 1) \o <<w>>
RECURSIVE Words(_, _, _)
Words(order, ptrSize, ws) ==
    IF ws = <<>> THEN <<>>
    ELSE Word(order, ptrSize, Head(ws)) \o Words(order, ptrSize, Tail(ws))
RECURSIVE Repeat(_, _)
Repeat(x, n) == IF n = 0 THEN <<>> ELSE <<x>> \o Repeat(x, n - 1)

\* Addresses used by the inputs: object A, object B (4 bytes), a type T for A, an
\* itab, a second type P, and an address nothing lives at.
In == [A |-> 8, B |-> 24, T |-> 1, I |-> 2, P |-> 3, None |-> 5, BLen |-> 4, BadTag |-> 2]

\* DWARF indexes with one local, x, at the top of main's frame of one word.
MainDwarf(ps) ==
    [globals |-> EmptyHeap,
     locals |-> [n \in {"main"} |-> [k \in {ps} |-> "x"]],
     structs |-> EmptyHeap]

\* One object A of type T with two pointer words, and an untyped object B: the
\* fields of T, the two words, the itab and type flags and a finalizer vary.
FieldLists(ps) ==
    { <<>>,
      <<Field(fieldKindPtr, 0)>>,
      <<Field(fieldKindString, ps)>>,
      <<Field(fieldKindIface, 0)>>,
      <<Field(fieldKindEface, 0)>>,
      <<Field(fieldKindSlice, 0), Field(fieldKindIface, 0)>>,
      <<Field(fieldKindIface, ps)>> }

ItabLists ==
    { <<Itab(In.I, TRUE)>>, <<Itab(In.I, FALSE)>>,
      <<Itab(In.I, TRUE), Itab(In.I, FALSE)>> }

FinalizerLists == { <<>>, <<Rec(tagFinalizer, Finalizer(In.A, In.B, In.B + 2, 0))>> }

EdgeInputsOf(order, ps) ==
    { Input(File(<<Params(order, ps, 0),
                   Rec(tagType, Type(In.T, 2 * ps, "T", FALSE, fields)),
                   Rec(tagType, Type(In.P, ps, "P", itabs[1].ptr, <<>>))>>
                 \o [i \in 1..Len(itabs) |-> Rec(tagItab, itabs[i])]
                 \o <<Rec(tagObject, Object(In.A, In.T, typeKindObject,
                                            Words(order, ps, <<w1, w2>>))),
                      Rec(tagObject, Object(In.B, 0, typeKindObject, Zeros(In.BLen)))>>
                 \o fin
                 \o <<Rec(tagStackFrame,
                          StackFrame(0, 0, Word(order, ps, w2), "main",
                                     <<Field(fieldKindPtr, 0)>>)),
                      EOFRec>>),
            GoodExe, MainDwarf(ps)) :
        fields \in FieldLists(ps),
        itabs \in ItabLists, fin \in FinalizerLists,
        w1 \in {0, In.I, In.P, In.None, In.B},
        w2 \in {0, In.A, In.B, In.B + 2, In.B + In.BLen} }

EdgeInputs == UNION { EdgeInputsOf(order, ps) : order \in {0, 1}, ps \in {4, 8} }

\* An Array, Chan or other-kind object A of n words whose type has size size, with
\* channel header size hc.
LoopInputs ==
    { Input(File(<<Params(0, 4, hc),
                   Rec(tagType, Type(In.T, size, "T", FALSE, fields)),
                   Rec(tagObject, Object(In.A, In.T, kind, Words(0, 4, Repeat(w, n)))),
                   Rec(tagObject, Object(In.B, 0, typeKindObject, Zeros(In.BLen))),
                   EOFRec>>),
            GoodExe, NoDwarf) :
        hc \in {0, 4, 8, 16}, size \in {0, 4, 8, 12}, n \in 0..MaxElems,
        kind \in {typeKindArray, typeKindChan, 3},
        fields \in {<<>>, <<Field(fieldKindPtr, 0)>>}, w \in {0, In.B} }

\* Stack frames and goroutines.
FrameChoices ==
    { StackFrame(0, 0, Zeros(8), "f", <<>>), StackFrame(8, 0, <<>>, "g", <<>>),
      StackFrame(8, 1, <<>>, "h", <<>>), StackFrame(8, 1, Zeros(8), "k", <<>>),
      StackFrame(16, 2, <<>>, "goexit", <<>>), StackFrame(8, Mod - 1, <<>>, "w", <<>>) }

GoRoutineChoices == { GoRoutine(0, In.B), GoRoutine(8, 0) }

SeqsUpTo(S, n) == UNION { [1..k -> S] : k \in 1..n }

Recs(tag, vs) == [i \in 1..Len(vs) |-> Rec(tag, vs[i])]

FrameInputs ==
    { Input(File(<<Params(0, 4, 0),
                   Rec(tagObject, Object(In.B, 0, typeKindObject, Zeros(In.BLen)))>>
                 \o Recs(tagStackFrame, fs) \o Recs(tagGoRoutine, gs) \o <<EOFRec>>),
            GoodExe, NoDwarf) :
        fs \in SeqsUpTo(FrameChoices, MaxFrames),
        gs \in SeqsUpTo(GoRoutineChoices, MaxGoroutines) }

\* Types and frames to name: the struct "T" has a DWARF entry, "U" has none; the
\* function "main" has locals, "anon" has no DWARF entry.
StructHeaps ==
    { EmptyHeap, [k \in {16} |-> "count"],
      [k \in {0, 16} |-> IF k = 0 THEN "hdr" ELSE "count"] }

LocalHeaps ==
    { EmptyHeap, [k \in {8} |-> "x"], [k \in {0, 8} |-> IF k = 0 THEN "r" ELSE "x"] }

NamingInputs ==
    { Input(File(<<Params(0, 4, 0),
                   Rec(tagType, Type(In.T, 24, tname, FALSE,
                                     [i \in 1..Len(offs) |-> Field(fieldKindPtr, offs[i])])),
                   EOFRec>>),
            GoodExe,
            [globals |-> EmptyHeap, locals |-> EmptyHeap,
             structs |-> [n \in {"T"} |-> h]]) :
        tname \in {"T", "U"}, h \in StructHeaps,
        offs \in SeqsUpTo({0, 4, 16, 20}, 2) }
    \cup
    { Input(File(<<Params(0, 4, 0),
                   Rec(tagStackFrame,
                       StackFrame(0, 0, Zeros(16), fname, <<Field(fieldKindPtr, off)>>)),
                   EOFRec>>),
            GoodExe,
            [globals |-> EmptyHeap, locals |-> [n \in {"main"} |-> h],
             structs |-> EmptyHeap]) :
        fname \in {"main", "anon"}, h \in LocalHeaps, off \in {0, 8, 12, 16, 20} }

\* Data roots and other roots into object B, with the globals of the executable.
GlobalHeaps ==
    { EmptyHeap, [k \in {4} |-> "g1"], [k \in {4, 12} |-> IF k = 4 THEN "g1" ELSE "g2"] }

RootInputs ==
    { Input(File(<<Params(0, 4, 0),
                   Rec(tagObject, Object(In.B, 0, typeKindObject, Zeros(In.BLen))),
                   Rec(tagDataRoot, DataRoot(from, to)),
                   Rec(tagOtherRoot, OtherRoot("finq", to)),
                   EOFRec>>),
            GoodExe,
            [globals |-> h, locals |-> EmptyHeap, structs |-> EmptyHeap]) :
        h \in GlobalHeaps, from \in {0, 2, 4, 6, 12, 13},
        to \in {0, In.B, In.B + 2, In.B + In.BLen} }

\* Dump files and executables Read may fail on.
Headers ==
    [text : {HeaderText, "go1.2 heap dump", ""}, term : {"LF", "CRLF", "EOF"},
     long : BOOLEAN]

Exes == [format : Formats \cup {"none"}, dwarf : BOOLEAN]

PtrField == <<Field(fieldKindPtr, 0)>>

Streams ==
    { <<>>,
      <<Params(0, 8, 16), EOFRec>>,
      <<Params(0, 8, 16)>>,
      <<EOFRec, Rec(In.BadTag, NoPayload)>>,
      <<Params(1, 4, 0), Rec(In.BadTag, NoPayload), EOFRec>>,
      <<Params(1, 4, 0), Cut(tagObject)>>,
      <<Rec(tagOSThread, NoPayload), Rec(tagMemStats, NoPayload), Rec(tagOtherRoot, OtherRoot("finq", 0)),
        EOFRec>>,
      \* an object whose type has no record
      <<Params(0, 4, 0), Rec(tagObject, Object(In.A, In.T, typeKindObject, Zeros(4))),
        EOFRec>>,
      \* a goroutine whose top frame has no record
      <<Params(0, 4, 0), Rec(tagStackFrame, StackFrame(8, 1, <<>>, "h", <<>>)),
        Rec(tagGoRoutine, GoRoutine(8, 0)), EOFRec>>,
      \* a frame with an Iface field whose itab has no record
      <<Params(0, 4, 0),
        Rec(tagStackFrame, StackFrame(0, 0, Words(0, 4, <<In.I, 0>>), "f",
                                      <<Field(fieldKindIface, 0)>>)),
        EOFRec>>,
      \* pointers to read and no Params record, or an unsupported pointer size
      <<Rec(tagType, Type(In.T, 4, "T", FALSE, PtrField)),
        Rec(tagObject, Object(In.A, In.T, typeKindObject, Zeros(4))), EOFRec>>,
      <<Params(0, 2, 0), Rec(tagType, Type(In.T, 4, "T", FALSE, PtrField)),
        Rec(tagObject, Object(In.A, In.T, typeKindObject, Zeros(4))), EOFRec>>,
      \* duplicate type records and a sound object
      <<Params(0, 4, 0), Rec(tagType, Type(In.T, 4, "T", FALSE, <<>>)),
        Rec(tagType, Type(In.T, 4, "T", FALSE, PtrField)),
        Rec(tagObject, Object(In.A, In.T, typeKindObject, Word(0, 4, In.A))), EOFRec>> }

ReadInputs ==
    { Input([exists |-> ex, hdr |-> hdr, recs |-> recs], e, MainDwarf(4)) :
        ex \in BOOLEAN, hdr \in Headers, recs \in Streams, e \in Exes }

Inputs == EdgeInputs \cup LoopInputs \cup FrameInputs \cup NamingInputs \cup RootInputs
          \cup ReadInputs

\* The state before Read runs on an input of the set ins.
InitOn(ins) ==
    /\ pc = "start"
    /\ msg = ""
    /\ \E inp \in ins : file = inp.file /\ exe = inp.exe /\ dw = inp.dw
    /\ dumpFile = "unopened"
    /\ exeFile = "unopened"
    /\ d = ZeroDump
    /\ cur = [g |-> 0, f |-> 0, walking |-> FALSE]
    /\ calls = {}

Init == InitOn(Inputs)

\* The inputs with element loops to run, and those with stacks to walk that have at
\* most three frame and goroutine records.
LinkInputs == LoopInputs \cup { inp \in FrameInputs : Len(inp.file.recs) <= 6 }

LinkInit == InitOn(LinkInputs)

Spec == Init /\ [][Next]_vars

\* Read is one sequential program: a step that can be taken is taken.
FairSpec == LinkInit /\ [][Next]_vars /\ WF_vars(Next)

(***************************************************************************)
(* Properties                                                               *)
(***************************************************************************)
Linked == pc = "done"

\* The phases in which link has chained the frames.
FramesChained == pc \in {"goroutines", "objects", "done"}

\* Objects and frames alike: what has data and edges.
Sources == {d.objects[i] : i \in 1..Len(d.objects)} \cup {d.frames[i] : i \in 1..Len(d.frames)}

\* Some object's bytes include address a.
Inside(a, x) == x.addr <= a /\ a < x.addr + Len(x.data)
InSomeObject(a) == \E i \in 1..Len(d.objects) : Inside(a, d.objects[i])

EdgeMatchesPointer(o, e) ==
    /\ e.to # 0
    /\ PtrAt(d, o.data, e.fromoffset).st = "ok"
    /\ Add(d.objects[e.to].addr, e.tooffset) = PtrAt(d, o.data, e.fromoffset).v

\* C1: after Read has returned, every edge of every object and frame has a
\* destination, and destination address + destination offset is the pointer word
\* at the edge's source offset in the source's data.
C1_EveryEdgeMatchesItsPointer ==
    Linked => \A o \in Sources : \A k \in 1..Len(o.edges) : EdgeMatchesPointer(o, o.edges[k])

\* The frames the walk from frame f visits in at most n steps, and whether the walk
\* reaches nil within n steps.
RECURSIVE Visited(_, _)
Visited(f, n) ==
    IF f = 0 \/ n = 0 THEN {} ELSE {f} \cup Visited(d.frames[f].parent, n - 1)

RECURSIVE ReachesNil(_, _)
ReachesNil(f, n) ==
    IF f = 0 THEN TRUE ELSE IF n = 0 THEN FALSE ELSE ReachesNil(d.frames[f].parent, n - 1)

Stack(g) == Visited(d.goroutines[g].tos, Len(d.frames))

\* C2 as claimed: the walk from every goroutine's tos ends, and after link every
\* frame on it belongs to that goroutine.
C2_EveryFrameOfTheWalkIsOwned ==
    /\ FramesChained => \A f \in 1..Len(d.frames) : ReachesNil(f, Len(d.frames))
    /\ Linked => \A g \in 1..Len(d.goroutines) :
                    \A f \in Stack(g) : d.frames[f].goroutine = g

\* C2 amended: the walk from every goroutine's tos ends, and after link every frame
\* on it belongs to the last goroutine, in record order, whose walk visits it.
C2_FrameOwnedByLastVisitor ==
    /\ FramesChained => \A f \in 1..Len(d.frames) : ReachesNil(f, Len(d.frames))
    /\ Linked => \A g \in 1..Len(d.goroutines) :
                    /\ d.goroutines[g].tos # 0
                    /\ \A f \in Stack(g) :
                          /\ d.frames[f].goroutine >= g
                          /\ f \in Stack(d.frames[f].goroutine)
                          /\ \A h \in 1..Len(d.goroutines) :
                                f \in Stack(h) => h <= d.frames[f].goroutine

\* Two goroutines whose walks share a frame, the walks being two frames long.
C2_Witness ==
    /\ Linked
    /\ \E g, h \in 1..Len(d.goroutines) :
          /\ g < h
          /\ Stack(g) \cap Stack(h) # {}
          /\ Cardinality(Stack(g)) >= 2
          /\ d.goroutines[g].tos # d.goroutines[h].tos

HasKey(sp, depth) ==
    \E i \in 1..Len(d.frames) : d.frames[i].addr = sp /\ d.frames[i].depth = depth

\* C3: once link has chained the frames, a frame's parent p, when there is one,
\* has p.addr = f.addr + len(f.data) and p.depth = f.depth + 1, and a frame whose
\* key (f.addr + len(f.data), f.depth + 1) no frame record has has no parent.
C3_ParentIsTheNextFrame ==
    FramesChained =>
        \A i \in 1..Len(d.frames) :
            LET f == d.frames[i] IN
            /\ f.parent # 0 =>
                  /\ d.frames[f.parent].addr = (f.addr + Len(f.data)) % Mod
                  /\ d.frames[f.parent].depth = (f.depth + 1) % Mod
            /\ ~HasKey((f.addr + Len(f.data)) % Mod, (f.depth + 1) % Mod) => f.parent = 0

\* Read has returned with a frame that has a parent and a frame that has none.
C3_Witness ==
    /\ Linked
    /\ \E i, j \in 1..Len(d.frames) :
          /\ d.frames[i].parent # 0 /\ d.frames[i].parent # i
          /\ d.frames[j].parent = 0

\* The phases in which naming has returned.
Named == pc \in {"link", "goroutines", "objects", "done"}

Max(S) == CHOOSE k \in S : \A j \in S : j <= k

\* The name C4 gives a field at offset off of a struct with members h.
FloorName(h, off) ==
    LET below == {k \in DOMAIN h : k <= off} IN
    IF below = {} THEN "unk" \o Dec(off)
    ELSE IF Max(below) = off THEN h[off]
    ELSE h[Max(below)] \o ":" \o Dec(off - Max(below))

\* C4: once naming has returned, each field of a type whose name the structs map
\* holds is named after the member at the greatest offset <= the field's offset:
\* "unk<offset>" when there is none, the member's name when the offsets are equal,
\* and "<member>:<distance between the two offsets>" otherwise.
C4_FieldNamedByFloorMember ==
    Named =>
        \A i \in 1..Len(d.types) :
            d.types[i].name \in DOMAIN dw.structs =>
                \A k \in 1..Len(d.types[i].fields) :
                    d.types[i].fields[k].name =
                        FloorName(dw.structs[d.types[i].name], d.types[i].fields[k].offset)

\* C5 as claimed: once naming has returned, every field of a type whose name the
\* structs map does not hold is named "unk<offset>".
C5_AbsentStructFieldsNamedUnk ==
    Named =>
        \A i \in 1..Len(d.types) :
            d.types[i].name \notin DOMAIN dw.structs =>
                \A k \in 1..Len(d.types[i].fields) :
                    d.types[i].fields[k].name = "unk" \o Dec(d.types[i].fields[k].offset)

\* C5 amended: once naming has returned, every field of a type whose name the
\* structs map does not hold still has the empty name rawRead gave it.
C5_AbsentStructFieldsUnnamed ==
    Named =>
        \A i \in 1..Len(d.types) :
            d.types[i].name \notin DOMAIN dw.structs =>
                \A k \in 1..Len(d.types[i].fields) : d.types[i].fields[k].name = ""

\* Read has returned a dump with a type of two fields the structs map does not
\* hold, while it holds another struct with members.
C5_Witness ==
    /\ Linked
    /\ \E i \in 1..Len(d.types) :
          /\ d.types[i].name \notin DOMAIN dw.structs
          /\ Len(d.types[i].fields) = 2
          /\ \E n \in DOMAIN dw.structs : DOMAIN dw.structs[n] # {}

\* The base offsets the element loop of an Array or Chan object is to visit.
SpecBases(x, t, start) ==
    { i \in 0..Len(x.data) :
        /\ i + t.size <= Len(x.data)
        /\ \E k \in 0..Len(x.data) : i = start + k * t.size }

Start(x) == IF x.kind = typeKindChan THEN d.hChanSize ELSE 0

\* The (data, fields, base offset) triples of the appendFields calls link is to make.
Walks ==
    { <<d.frames[i].data, d.frames[i].fields, 0>> : i \in 1..Len(d.frames) }
    \cup
    UNION { LET x == d.objects[i] IN
            IF x.typ = 0 THEN {}
            ELSE IF x.kind = typeKindObject THEN { <<x.data, d.types[x.typ].fields, 0>> }
            ELSE IF x.kind \in {typeKindArray, typeKindChan}
            THEN { <<x.data, d.types[x.typ].fields, b>> :
                     b \in SpecBases(x, d.types[x.typ], Start(x)) }
            ELSE {} : i \in 1..Len(d.objects) }

HasAddr(seq, a) == \E i \in 1..Len(seq) : seq[i].addr = a

HeaderKnown(w, f) ==
    LET h == PtrAt(d, w[1], w[3] + f.offset) IN
    h.st = "ok" /\ h.v # 0 =>
        /\ f.kind = fieldKindEface => HasAddr(d.types, h.v)
        /\ f.kind = fieldKindIface => HasAddr(d.itabs, h.v)

NoFatalCondition ==
    /\ file.exists /\ file.hdr.text = HeaderText /\ ~file.hdr.long
    /\ \E i \in 1..Len(file.recs) :
          /\ file.recs[i].tag = tagEOF
          /\ \A j \in 1..(i - 1) : file.recs[j].tag \in KnownTags /\ file.recs[j].ok
    /\ exe.format \in Formats /\ exe.dwarf
    /\ \A i \in 1..Len(d.objects) :
          d.objects[i].typaddr # 0 => HasAddr(d.types, d.objects[i].typaddr)
    /\ \A w \in Walks : \A k \in 1..Len(w[2]) : HeaderKnown(w, w[2][k])
    /\ \A g \in 1..Len(d.goroutines) : HasKey(d.goroutines[g].tosaddr, 0)

\* C6: Read returns a dump only if the header line is right, every record up to
\* the EOF tag has a known tag and is complete, the EOF tag is there, the
\* executable yields DWARF, every typed object's type has a record, every walked
\* Eface or Iface field with a nonzero header word has its Type or Itab record, and
\* every goroutine's (tosaddr, 0) has a frame; and a fatal run returns nothing.
C6_ReturnsOnlyWithoutFatalCondition ==
    /\ Linked => NoFatalCondition /\ msg = ""
    /\ pc = "fatal" => msg # ""

\* Read has returned a dump with a typed object, an Iface field with an itab, and
\* a goroutine.
C6_Witness ==
    /\ Linked
    /\ \/ \E i \in 1..Len(d.objects) : d.objects[i].typ # 0 /\ Len(d.itabs) > 0
       \/ Len(d.goroutines) > 0

\* C7: when Read has ended, by returning, by log.Fatal or by a panic, neither the
\* dump file nor the executable is open.
C7_FilesReleasedOnEveryExit ==
    pc \in {"done", "fatal", "panic"} => dumpFile # "open" /\ exeFile # "open"

\* The last itab record with address a says the data word is a pointer.
ItabSaysPointer(a) ==
    \E i \in 1..Len(d.itabs) :
        /\ d.itabs[i].addr = a /\ d.itabs[i].ptr
        /\ \A j \in (i + 1)..Len(d.itabs) : d.itabs[j].addr # a

\* The pointer-aligned offsets up to n.
Aligned(n) == { b \in 0..n : d.ptrSize # 0 /\ b % d.ptrSize = 0 }

IfaceFields ==
    UNION { {d.types[i].fields[k] : k \in 1..Len(d.types[i].fields)} : i \in 1..Len(d.types) }
    \cup
    UNION { {d.frames[i].fields[k] : k \in 1..Len(d.frames[i].fields)} : i \in 1..Len(d.frames) }

\* C8: on the data of any object or frame, at any aligned base offset, appendFields' step
\* for an Iface field at absolute offset off appends no edge leaving off, and
\* appends one edge, leaving off + ptrSize, exactly when the itab word at off is
\* nonzero, its Itab record has ptr set and the data word lies inside an object.
C8_IfaceEdgeOnlyForPointerItab ==
    \A o \in Sources : \A f \in IfaceFields : \A base \in Aligned(Len(o.data)) :
        LET off == base + f.offset
            r == appendField(d, <<>>, o.data, f, base)
            tp == PtrAt(d, o.data, off)
            dp == PtrAt(d, o.data, off + d.ptrSize)
        IN  f.kind = fieldKindIface /\ r.st = "ok" =>
               /\ \A k \in 1..Len(r.v) : r.v[k].fromoffset # off
               /\ Len(r.v) <= 1
               /\ (Len(r.v) = 1 => r.v[1].fromoffset = off + d.ptrSize)
               /\ Len(r.v) = 1 <=>
                     /\ tp.v # 0 /\ ItabSaysPointer(tp.v)
                     /\ dp.st = "ok" /\ InSomeObject(dp.v)

\* link has walked an object whose only field is an Iface with a pointer itab, and
\* the object has the edge of the data word; another run has an itab that is
\* no pointer.
C8_Witness ==
    /\ Linked /\ d.finalizers = <<>>
    /\ \E i \in 1..Len(d.objects) :
          LET x == d.objects[i] IN
          /\ x.typ # 0
          /\ Len(d.types[x.typ].fields) = 1
          /\ d.types[x.typ].fields[1].kind = fieldKindIface
          /\ Len(x.edges) = 1
          /\ x.edges[1].fromoffset = d.types[x.typ].fields[1].offset + d.ptrSize
          /\ ItabSaysPointer(PtrAt(d, x.data, d.types[x.typ].fields[1].offset).v)

\* C9: the appendFields calls of link's object-to-object pass on a typed Array or
\* Chan object are exactly those at the base offsets start, start + t.size, ... with
\* i + t.size <= len(x.data).
C9_ElementCallsAreTheWholeElements ==
    /\ \A c \in calls :
          d.objects[c[1]].kind \in {typeKindArray, typeKindChan} =>
              c[2] \in SpecBases(d.objects[c[1]], d.types[d.objects[c[1]].typ],
                                 Start(d.objects[c[1]]))
    /\ Linked =>
          \A i \in 1..Len(d.objects) :
              d.objects[i].typ # 0 /\ d.objects[i].kind \in {typeKindArray, typeKindChan} =>
                  \A b \in SpecBases(d.objects[i], d.types[d.objects[i].typ], Start(d.objects[i])) :
                      <<i, b>> \in calls

\* C10: after link, a data root is named after the global at the greatest address
\* a <= fromaddr, its edge leaving offset fromaddr - a, or "unknown global" with
\* its edge leaving offset 0 when there is none; the edge is set exactly when an
\* object holds toaddr, and lands at toaddr - the object's address.
C10_DataRootNamedAndLinked ==
    Linked =>
        \A i \in 1..Len(d.dataroots) :
            LET r == d.dataroots[i]
                below == {a \in DOMAIN dw.globals : a <= r.fromaddr}
            IN  /\ IF below # {}
                   THEN /\ r.name = dw.globals[Max(below)]
                        /\ r.e.to # 0 => r.e.fromoffset = r.fromaddr - Max(below)
                   ELSE /\ r.name = "unknown global"
                        /\ r.e.fromoffset = 0
                /\ r.e.to # 0 <=> InSomeObject(r.toaddr)
                /\ r.e.to # 0 =>
                      /\ Inside(r.toaddr, d.objects[r.e.to])
                      /\ r.e.tooffset = r.toaddr - d.objects[r.e.to].addr

\* Read has returned the dump, aborted in log.Fatal or panicked.
Ended == pc \in {"done", "fatal", "panic"}

\* The element loop is about to append to an edge list that has reached MaxEdges:
\* the run goes on outside the bounded model.
EdgesAtBound ==
    /\ pc = "objects" /\ cur.inloop /\ cur.body
    /\ Len(d.objects[cur.o].edges) >= MaxEdges

\* C11: every run of Read eventually returns the dump or aborts: link, and the
\* element loop of every typed Array or Chan object in particular, makes finitely
\* many steps (a run whose edge list outgrows MaxEdges is not counted against it).
C11_ReadEventuallyEnds == <>(Ended \/ EdgesAtBound)

====
